---- MODULE Spec2Model ----
(***************************************************************************)
(* Model of the playback session of frontend/src/App.jsx: the React state  *)
(* of the App component, its event handlers, the animation interval and    *)
(* the asynchronous verifyMission / loadTrajectories functions.            *)
(*                                                                         *)
(* Numbers.  currentTime and timeWindow.end are JavaScript numbers.  The   *)
(* model keeps them as integers counted in 1/TimeScale of a simulated time *)
(* unit, so the tick's "t + 1" is "t + TimeScale" and a window end that is *)
(* not a whole number of units is representable.                           *)
(***************************************************************************)
EXTENDS Integers, Sequences, FiniteSets, TLC

\* ------------------------------------------------------------ bounds ----
TimeScale == 2      \* model integers per simulated time unit
MaxEnd    == 3      \* largest timeWindow.end of a catalog, in 1/TimeScale
MaxProcs  == 2      \* verifyMission invocations that may exist at once
MaxLen    == 3      \* longest trajectory handed to the sampler
MaxSampleTime == 3  \* largest sample time of such a trajectory
MaxCoord  == 1      \* largest coordinate of a point handed to the projection

\* ------------------------------------------------------ value spaces ----
\* null and undefined, as values comparable with the records and sequences
\* they stand in for
Null      == [null |-> TRUE]
Undefined == <<[undefined |-> TRUE]>>

ScenarioKeys == {"conflict", "clear"}

Ends == 0..MaxEnd

Mission(id, end) == [id |-> id, timeWindow |-> [start |-> 0, end |-> end]]

\* the scenario behind each button; only the primary's window end varies
Scenario(key, end) ==
    IF key = "conflict"
    THEN [primary |-> Mission("P", end), others |-> <<Mission("A", MaxEnd)>>]
    ELSE [primary |-> Mission("Q", end), others |-> <<Mission("B", MaxEnd)>>]

\* responses of GET /scenarios: a mapping from scenario keys to scenarios;
\* one catalog per window end, and one that lacks the "conflict" scenario
Catalogs ==
    { [k \in ScenarioKeys |->
         Scenario(k, IF k = "conflict" THEN e ELSE MaxEnd - e)] : e \in Ends }
    \cup { [k \in {"clear"} |-> Scenario(k, MaxEnd)] }

Pos(x, y, z) == [x |-> x, y |-> y, z |-> z]

\* identifiers of the missions of a sequence
Ids(missions) == { missions[i].id : i \in 1..Len(missions) }

\* responses of POST /verify
Results ==
    { [status |-> "CLEAR", conflicts |-> <<>>] }
    \cup { [status |-> "CONFLICT",
            conflicts |-> <<[time |-> 1, otherDroneId |-> d,
                             location |-> Pos(1, 1, 1)]>>] : d \in {"A", "B"} }

\* the responses the service gives to a request: its conflicts are with
\* drones of the request's others
ResultsFor(others) ==
    { r \in Results :
        \A i \in 1..Len(r.conflicts) : r.conflicts[i].otherDroneId \in Ids(others) }

\* the trajectory field of a well-formed response of POST /trajectory
Trajectories ==
    { <<>>,
      <<[time |-> 0, position |-> Pos(0, 0, 0)],
        [time |-> MaxEnd, position |-> Pos(1, 1, 1)]>> }

\* what one sampling request can come back as:
\*   ok        - JSON with a trajectory field
\*   malformed - JSON object without a trajectory field (data.trajectory
\*               evaluates to undefined)
\*   fail      - fetch or response.json() rejects
Outcomes ==
    { [kind |-> "ok", trajectory |-> t] : t \in Trajectories }
    \cup { [kind |-> "malformed", trajectory |-> Undefined],
           [kind |-> "fail", trajectory |-> Undefined] }

EmptyMap == <<>>

Procs == 1..MaxProcs

IdleProc == [pc |-> "idle", primary |-> Null, others |-> <<>>,
             idx |-> 0, trajData |-> EmptyMap, outcomes |-> <<>>]

NoInterval == [cleared |-> TRUE]
NoLoad     == [none |-> TRUE]

\* ------------------------------------------------------ scene composer ----
\* const scale = 2.5 (in tenths), offsetX = 200, offsetY = 300
scale   == 25
offsetX == 200
offsetY == 300

\* mutant: a projection whose horizontal spread grows with the height z
project_Perspective(x, y, z) ==
    [x |-> [k |-> 100 * offsetX, cos |-> (x - y) * (1 + z) * scale * 10,
            sin |-> 0],
     y |-> [k |-> 100 * offsetY - z * scale * 8, cos |-> 0,
            sin |-> (x + y) * scale * 10]]

\* project(x, y, z).  Math.cos(Math.PI / 6) and Math.sin(Math.PI / 6) are kept
\* as symbols: a screen coordinate is k + cos * Math.cos(PI/6)
\* + sin * Math.sin(PI/6), the three coefficients counted in 1/100 pixel, and
\* the arithmetic is exact (the rounding of doubles is not modelled)
project(x, y, z) ==
    [x |-> [k |-> 100 * offsetX, cos |-> (x - y) * scale * 10, sin |-> 0],
     y |-> [k |-> 100 * offsetY - z * scale * 8, cos |-> 0,
            sin |-> (x + y) * scale * 10]]

\* Math.abs
Abs(n) == IF n < 0 THEN -n ELSE n

\* mutant: a loop that lets a later, equally close sample win (diff <= minDiff)
RECURSIVE ClosestFrom_LastWins(_, _, _, _, _)
ClosestFrom_LastWins(trajectory, time, i, closest, minDiff) ==
    IF i > Len(trajectory)
    THEN closest
    ELSE LET diff == Abs(trajectory[i].time - time)
         IN  IF diff <= minDiff
             THEN ClosestFrom_LastWins(trajectory, time, i + 1, trajectory[i], diff)
             ELSE ClosestFrom_LastWins(trajectory, time, i + 1, closest, minDiff)

\* the for loop of getPositionAtTime from sample i on
RECURSIVE ClosestFrom(_, _, _, _, _)
ClosestFrom(trajectory, time, i, closest, minDiff) ==
    IF i > Len(trajectory)
    THEN closest
    ELSE LET diff == Abs(trajectory[i].time - time)
         IN  IF diff < minDiff
             THEN ClosestFrom(trajectory, time, i + 1, trajectory[i], diff)
             ELSE ClosestFrom(trajectory, time, i + 1, closest, minDiff)

\* mutant: a sampler that answers the origin for an empty trajectory
getPositionAtTime_OriginWhenEmpty(trajectory, time) ==
    IF trajectory = Undefined
    THEN Null
    ELSE IF Len(trajectory) = 0
         THEN Pos(0, 0, 0)
         ELSE ClosestFrom(trajectory, time, 1, trajectory[1],
                          Abs(trajectory[1].time - time)).position

\* getPositionAtTime(trajectory, time)
getPositionAtTime(trajectory, time) ==
    IF trajectory = Undefined \/ Len(trajectory) = 0
    THEN Null
    ELSE ClosestFrom(trajectory, time, 1, trajectory[1],
                     Abs(trajectory[1].time - time)).position

\* renderDrone(missionId, ...): the projected marker, or null
renderDrone(trajs, missionId, time) ==
    IF missionId \notin DOMAIN trajs \/ trajs[missionId] = Undefined
    THEN Null
    ELSE LET pos == getPositionAtTime(trajs[missionId], time)
         IN  IF pos = Null THEN Null ELSE project(pos.x, pos.y, pos.z)

\* verificationResult?.conflicts.map(...): one circle per conflict
ConflictZones(result) ==
    IF result = Null
    THEN <<>>
    ELSE [i \in 1..Len(result.conflicts) |->
            project(result.conflicts[i].location.x,
                    result.conflicts[i].location.y,
                    result.conflicts[i].location.z)]

\* mutant: a composer that shows only the conflicts at the playhead
render3DView_ConflictsAtPlayhead(primary, others, trajs, time, result) ==
    IF primary = Null
    THEN Null
    ELSE [drones |-> [i \in 1..(1 + Len(others)) |->
                        renderDrone(trajs, (<<primary>> \o others)[i].id, time)],
          conflicts |->
            IF result = Null
            THEN <<>>
            ELSE SelectSeq(ConflictZones(result),
                           LAMBDA z : \E i \in 1..Len(result.conflicts) :
                                        result.conflicts[i].time = time)]

\* render3DView(): the drone markers (primary first, then the others in
\* order) and the conflict zones; null without a primary mission
render3DView(primary, others, trajs, time, result) ==
    IF primary = Null
    THEN Null
    ELSE [drones |-> [i \in 1..(1 + Len(others)) |->
                        renderDrone(trajs, (<<primary>> \o others)[i].id, time)],
          conflicts |-> ConflictZones(result)]

\* ------------------------------------------------------------- state ----
VARIABLES
    startup,             \* the mount effect's /scenarios fetch
    scenarios,
    selectedScenario,
    primaryMission,
    otherMissions,
    verificationResult,
    isLoading,
    currentTime,
    isPlaying,
    trajectories,
    interval,            \* the setInterval of the animation effect
    procs,               \* running verifyMission invocations (closures)
    scene,               \* what render3DView() drew in the last render
    lastEvent,           \* history: the handler that ran last
    before,              \* history: the clock and the keys of the trajectory
                         \* map as that handler found them
    lastLoad             \* history: the last completed loadTrajectories: its
                         \* missions and the outcome of each request

vars == <<startup, scenarios, selectedScenario, primaryMission, otherMissions,
          verificationResult, isLoading, currentTime, isPlaying, trajectories,
          interval, procs, scene, lastEvent, before, lastLoad>>

Init ==
    /\ startup = "pending"
    /\ scenarios = EmptyMap
    /\ selectedScenario = "conflict"
    /\ primaryMission = Null
    /\ otherMissions = <<>>
    /\ verificationResult = Null
    /\ isLoading = FALSE
    /\ currentTime = 0
    /\ isPlaying = FALSE
    /\ trajectories = EmptyMap
    /\ interval = NoInterval
    /\ procs = [p \in Procs |-> IdleProc]
    /\ scene = Null
    /\ lastEvent = "init"
    /\ before = [time |-> 0, playing |-> FALSE, keys |-> {}]
    /\ lastLoad = NoLoad

\* the re-render that follows the state updates of a handler
Rendered ==
    scene' = render3DView(primaryMission', otherMissions', trajectories',
                          currentTime', verificationResult')

\* history bookkeeping of every handler
Handled(event) ==
    /\ lastEvent' = event
    /\ before' = [time |-> currentTime, playing |-> isPlaying,
                  keys |-> DOMAIN trajectories]

\* --------------------------------------------------- animation effect ----
\* mutant: an effect without the clearInterval cleanup
AnimationEffect_NoCleanup(old, playing0, primary0, playing1, primary1) ==
    IF playing1 = playing0 /\ primary1 = primary0
    THEN old
    ELSE IF ~playing1 \/ primary1 = Null
         THEN old
         ELSE [maxTime |-> primary1.timeWindow.end]

\* useEffect(..., [isPlaying, primaryMission]): when a dependency changed the
\* cleanup clears the old interval and the body starts a new one if playing.
AnimationEffect(old, playing0, primary0, playing1, primary1) ==
    IF playing1 = playing0 /\ primary1 = primary0
    THEN old
    ELSE IF ~playing1 \/ primary1 = Null
         THEN NoInterval
         ELSE [maxTime |-> primary1.timeWindow.end]

\* the effect after a render with the new isPlaying and primaryMission
RunEffect(playing1, primary1) ==
    interval' = AnimationEffect(interval, isPlaying, primaryMission,
                                playing1, primary1)

\* ------------------------------------------------------- loadScenario ----
\* mutant: a loadScenario without setCurrentTime(0)
loadScenario_KeepsTime(scenarioKey, scenariosData) ==
    /\ scenarioKey \in DOMAIN scenariosData
    /\ primaryMission' = scenariosData[scenarioKey].primary
    /\ otherMissions' = scenariosData[scenarioKey].others
    /\ selectedScenario' = scenarioKey
    /\ verificationResult' = Null
    /\ currentTime' = currentTime
    /\ isPlaying' = FALSE
    /\ RunEffect(FALSE, scenariosData[scenarioKey].primary)

\* loadScenario(scenarioKey, scenariosData) for a key the data holds
loadScenario(scenarioKey, scenariosData) ==
    /\ scenarioKey \in DOMAIN scenariosData
    /\ primaryMission' = scenariosData[scenarioKey].primary
    /\ otherMissions' = scenariosData[scenarioKey].others
    /\ selectedScenario' = scenarioKey
    /\ verificationResult' = Null
    /\ currentTime' = 0
    /\ isPlaying' = FALSE
    /\ RunEffect(FALSE, scenariosData[scenarioKey].primary)

\* mount effect: /scenarios answered with data
ScenariosFetched ==
    /\ startup = "pending"
    /\ \E data \in Catalogs :
        /\ scenarios' = data
        /\ \/ loadScenario("conflict", data)
           \/ /\ "conflict" \notin DOMAIN data
              /\ UNCHANGED <<primaryMission, otherMissions, selectedScenario,
                             verificationResult, currentTime, isPlaying,
                             interval>>
    /\ startup' = "loaded"
    /\ Handled("scenariosFetched")
    /\ UNCHANGED <<isLoading, trajectories, procs, lastLoad>>
    /\ Rendered

\* mount effect: /scenarios rejected (the catch only logs)
ScenariosFailed ==
    /\ startup = "pending"
    /\ startup' = "failed"
    /\ Handled("scenariosFailed")
    /\ UNCHANGED <<scenarios, selectedScenario, primaryMission, otherMissions,
                   verificationResult, isLoading, currentTime, isPlaying,
                   trajectories, interval, procs, lastLoad>>
    /\ Rendered

\* mutant: a scenario load that abandons the verification in flight
LoadScenario_Cancels ==
    /\ \E key \in ScenarioKeys : loadScenario(key, scenarios)
    /\ Handled("loadScenario")
    /\ procs' = [p \in Procs |-> IdleProc]
    /\ isLoading' = FALSE
    /\ UNCHANGED <<startup, scenarios, trajectories, lastLoad>>
    /\ Rendered

\* the two scenario buttons: loadScenario(key) with the scenarios state
LoadScenario ==
    /\ \E key \in ScenarioKeys : loadScenario(key, scenarios)
    /\ Handled("loadScenario")
    /\ UNCHANGED <<startup, scenarios, isLoading, trajectories, procs,
                   lastLoad>>
    /\ Rendered

\* ------------------------------------------------------ verifyMission ----
\* mutant: a Verify button that is not disabled while isLoading
VerifyMission_NotDisabled ==
    /\ primaryMission # Null
    /\ Len(otherMissions) # 0
    /\ \E p \in Procs :
        /\ procs[p].pc = "idle"
        /\ \A q \in Procs : q < p => procs[q].pc # "idle"
        /\ procs' = [procs EXCEPT ![p] =
                        [IdleProc EXCEPT !.pc = "verify",
                                         !.primary = primaryMission,
                                         !.others = otherMissions]]
    /\ isLoading' = TRUE
    /\ Handled("verifyMission")
    /\ UNCHANGED <<startup, scenarios, selectedScenario, primaryMission,
                   otherMissions, verificationResult, currentTime, isPlaying,
                   trajectories, interval, lastLoad>>
    /\ Rendered

\* Verify button (disabled while isLoading): verifyMission up to its first
\* await; the closure keeps the missions of the render it was created in
VerifyMission ==
    /\ ~isLoading
    /\ primaryMission # Null
    /\ Len(otherMissions) # 0
    /\ \E p \in Procs :
        /\ procs[p].pc = "idle"
        /\ \A q \in Procs : q < p => procs[q].pc # "idle"
        /\ procs' = [procs EXCEPT ![p] =
                        [IdleProc EXCEPT !.pc = "verify",
                                         !.primary = primaryMission,
                                         !.others = otherMissions]]
    /\ isLoading' = TRUE
    /\ Handled("verifyMission")
    /\ UNCHANGED <<startup, scenarios, selectedScenario, primaryMission,
                   otherMissions, verificationResult, currentTime, isPlaying,
                   trajectories, interval, lastLoad>>
    /\ Rendered

\* /verify answered: setVerificationResult(result), then loadTrajectories()
\* runs up to the fetch of its first mission
VerifyResponse ==
    /\ \E p \in Procs :
        /\ procs[p].pc = "verify"
        /\ \E result \in ResultsFor(procs[p].others) :
            /\ verificationResult' = result
            /\ procs' = [procs EXCEPT ![p].pc = "trajectory", ![p].idx = 1]
    /\ Handled("verifyResponse")
    /\ UNCHANGED <<startup, scenarios, selectedScenario, primaryMission,
                   otherMissions, isLoading, currentTime, isPlaying,
                   trajectories, interval, lastLoad>>
    /\ Rendered

\* mutant: a catch block that clears the displayed result
VerifyFailed_ClearsResult ==
    /\ \E p \in Procs :
        /\ procs[p].pc = "verify"
        /\ procs' = [procs EXCEPT ![p] = IdleProc]
    /\ isLoading' = FALSE
    /\ verificationResult' = Null
    /\ Handled("verifyFailed")
    /\ UNCHANGED <<startup, scenarios, selectedScenario, primaryMission,
                   otherMissions, currentTime, isPlaying,
                   trajectories, interval, lastLoad>>
    /\ Rendered

\* mutant: a verifyMission without the finally block
VerifyFailed_KeepsLoading ==
    /\ \E p \in Procs :
        /\ procs[p].pc = "verify"
        /\ procs' = [procs EXCEPT ![p] = IdleProc]
    /\ Handled("verifyFailed")
    /\ UNCHANGED <<startup, scenarios, selectedScenario, primaryMission,
                   otherMissions, verificationResult, isLoading, currentTime,
                   isPlaying, trajectories, interval, lastLoad>>
    /\ Rendered

\* /verify rejected: catch (alert), finally setIsLoading(false)
VerifyFailed ==
    /\ \E p \in Procs :
        /\ procs[p].pc = "verify"
        /\ procs' = [procs EXCEPT ![p] = IdleProc]
    /\ isLoading' = FALSE
    /\ Handled("verifyFailed")
    /\ UNCHANGED <<startup, scenarios, selectedScenario, primaryMission,
                   otherMissions, verificationResult, currentTime, isPlaying,
                   trajectories, interval, lastLoad>>
    /\ Rendered

\* ---------------------------------------------------- loadTrajectories ----
\* const allMissions = [primaryMission, ...otherMissions]
allMissions(proc) == <<proc.primary>> \o proc.others

\* trajData[mission.id] = data.trajectory; a rejection skips the assignment
Assign(trajData, id, outcome) ==
    IF outcome.kind = "fail"
    THEN trajData
    ELSE [k \in DOMAIN trajData \cup {id} |->
            IF k = id THEN outcome.trajectory ELSE trajData[k]]

\* mutant: setTrajectories(prev => ({...prev, ...trajData}))
SetTrajectories_Merge(old, trajData) ==
    [k \in DOMAIN old \cup DOMAIN trajData |->
        IF k \in DOMAIN trajData THEN trajData[k] ELSE old[k]]

\* setTrajectories(trajData)
SetTrajectories(old, trajData) == trajData

\* one sampling request of the loop answered or rejected; after the last
\* mission: setTrajectories(trajData), verifyMission's finally
TrajectoryResponse ==
    \E p \in Procs, outcome \in Outcomes :
        LET proc     == procs[p]
            missions == allMissions(proc)
            trajData == Assign(proc.trajData, missions[proc.idx].id, outcome)
            log      == Append(proc.outcomes, outcome.kind)
        IN  /\ proc.pc = "trajectory"
            /\ IF proc.idx < Len(missions)
               THEN /\ procs' = [procs EXCEPT ![p].idx = proc.idx + 1,
                                              ![p].trajData = trajData,
                                              ![p].outcomes = log]
                    /\ Handled("trajectoryResponse")
                    /\ UNCHANGED <<trajectories, isLoading, lastLoad>>
               ELSE /\ procs' = [procs EXCEPT ![p] = IdleProc]
                    /\ trajectories' = SetTrajectories(trajectories, trajData)
                    /\ isLoading' = FALSE
                    /\ Handled("trajectoriesLoaded")
                    /\ lastLoad' = [missions |-> missions, outcomes |-> log]
            /\ UNCHANGED <<startup, scenarios, selectedScenario,
                           primaryMission, otherMissions, verificationResult,
                           currentTime, isPlaying, interval>>
            /\ Rendered

\* ----------------------------------------------------- animation clock ----
\* the Animation Controls are rendered while Object.keys(trajectories) is
\* not empty
ControlsShown == DOMAIN trajectories # {}

\* Play/Pause button while stopped: setIsPlaying(!isPlaying)
Play ==
    /\ ControlsShown
    /\ ~isPlaying
    /\ isPlaying' = TRUE
    /\ RunEffect(TRUE, primaryMission)
    /\ Handled("Play")
    /\ UNCHANGED <<startup, scenarios, selectedScenario, primaryMission,
                   otherMissions, verificationResult, isLoading, currentTime,
                   trajectories, procs, lastLoad>>
    /\ Rendered

\* mutant: a Pause that also rewinds the clock
Pause_Rewinds ==
    /\ ControlsShown
    /\ isPlaying
    /\ isPlaying' = FALSE
    /\ currentTime' = 0
    /\ RunEffect(FALSE, primaryMission)
    /\ Handled("Pause")
    /\ UNCHANGED <<startup, scenarios, selectedScenario, primaryMission,
                   otherMissions, verificationResult, isLoading,
                   trajectories, procs, lastLoad>>
    /\ Rendered

\* Play/Pause button while playing: setIsPlaying(!isPlaying)
Pause ==
    /\ ControlsShown
    /\ isPlaying
    /\ isPlaying' = FALSE
    /\ RunEffect(FALSE, primaryMission)
    /\ Handled("Pause")
    /\ UNCHANGED <<startup, scenarios, selectedScenario, primaryMission,
                   otherMissions, verificationResult, isLoading, currentTime,
                   trajectories, procs, lastLoad>>
    /\ Rendered

\* mutant: a Reset that also empties the trajectory map
Reset_ClearsTrajectories ==
    /\ ControlsShown
    /\ currentTime' = 0
    /\ isPlaying' = FALSE
    /\ trajectories' = EmptyMap
    /\ RunEffect(FALSE, primaryMission)
    /\ Handled("Reset")
    /\ UNCHANGED <<startup, scenarios, selectedScenario, primaryMission,
                   otherMissions, verificationResult, isLoading,
                   procs, lastLoad>>
    /\ Rendered

\* mutant: a Reset without setIsPlaying(false)
Reset_KeepsPlaying ==
    /\ ControlsShown
    /\ currentTime' = 0
    /\ isPlaying' = isPlaying
    /\ RunEffect(isPlaying, primaryMission)
    /\ Handled("Reset")
    /\ UNCHANGED <<startup, scenarios, selectedScenario, primaryMission,
                   otherMissions, verificationResult, isLoading,
                   trajectories, procs, lastLoad>>
    /\ Rendered

\* Reset button: setCurrentTime(0); setIsPlaying(false)
Reset ==
    /\ ControlsShown
    /\ currentTime' = 0
    /\ isPlaying' = FALSE
    /\ RunEffect(FALSE, primaryMission)
    /\ Handled("Reset")
    /\ UNCHANGED <<startup, scenarios, selectedScenario, primaryMission,
                   otherMissions, verificationResult, isLoading,
                   trajectories, procs, lastLoad>>
    /\ Rendered

\* the updater handed to setCurrentTime by the interval callback
TickTime(t, maxTime) == IF t >= maxTime THEN maxTime ELSE t + TimeScale

\* mutant: an updater that clamps but never calls setIsPlaying(false)
TickStops_Never(t, maxTime) == FALSE

\* whether the updater calls setIsPlaying(false)
TickStops(t, maxTime) == t >= maxTime

\* the interval fires
Tick ==
    /\ interval # NoInterval
    /\ currentTime' = TickTime(currentTime, interval.maxTime)
    /\ isPlaying' = (isPlaying /\ ~TickStops(currentTime, interval.maxTime))
    /\ RunEffect(isPlaying /\ ~TickStops(currentTime, interval.maxTime),
                 primaryMission)
    /\ Handled("tick")
    /\ UNCHANGED <<startup, scenarios, selectedScenario, primaryMission,
                   otherMissions, verificationResult, isLoading,
                   trajectories, procs, lastLoad>>
    /\ Rendered

Next ==
    \/ ScenariosFetched
    \/ ScenariosFailed
    \/ LoadScenario
    \/ VerifyMission
    \/ VerifyResponse
    \/ VerifyFailed
    \/ TrajectoryResponse
    \/ Play
    \/ Pause
    \/ Reset
    \/ Tick

Spec == Init /\ [][Next]_vars

\* the interval keeps firing while it exists (setInterval), and every request
\* in flight is eventually answered or rejected
Fairness ==
    /\ WF_vars(Tick)
    /\ WF_vars(VerifyResponse \/ VerifyFailed)
    /\ WF_vars(TrajectoryResponse)

FairSpec == Spec /\ Fairness

\* ------------------------------------------------- sampler on its own ----
\* trajectories a sampling response can carry: up to MaxLen samples in any
\* time order, the i-th sample at a position of its own
SampleTrajectories ==
    UNION { { [i \in 1..n |-> [time |-> ts[i], position |-> Pos(i, 0, 0)]]
              : ts \in [1..n -> 0..MaxSampleTime] } : n \in 0..MaxLen }

\* a session showing one mission with such a trajectory at some playhead
SamplerInit ==
    /\ startup = "loaded"
    /\ scenarios = EmptyMap
    /\ selectedScenario = "conflict"
    /\ primaryMission = Mission("P", MaxSampleTime + 1)
    /\ otherMissions = <<>>
    /\ verificationResult = Null
    /\ isLoading = FALSE
    /\ currentTime \in 0..(MaxSampleTime + 1)
    /\ isPlaying = FALSE
    /\ \E t \in SampleTrajectories : trajectories = [k \in {"P"} |-> t]
    /\ interval = NoInterval
    /\ procs = [p \in Procs |-> IdleProc]
    /\ scene = Null
    /\ lastEvent = "init"
    /\ before = [time |-> currentTime, playing |-> FALSE, keys |-> {"P"}]
    /\ lastLoad = NoLoad

\* one render pass: render3DView() on the current state
RenderScene ==
    /\ scene = Null
    /\ scene' = render3DView(primaryMission, otherMissions, trajectories,
                             currentTime, verificationResult)
    /\ Handled("render")
    /\ UNCHANGED <<startup, scenarios, selectedScenario, primaryMission,
                   otherMissions, verificationResult, isLoading, currentTime,
                   isPlaying, trajectories, interval, procs, lastLoad>>

SamplerNext == RenderScene

SamplerSpec == SamplerInit /\ [][SamplerNext]_vars

\* ---------------------------------------------- projection on its own ----
Points  == { Pos(x, y, z) : x, y, z \in 0..MaxCoord }
Offsets == { Pos(x, y, z) : x, y, z \in (-MaxCoord)..MaxCoord }

Plus(p, d) == Pos(p.x + d.x, p.y + d.y, p.z + d.z)

ConflictAt(p) == [time |-> 0, otherDroneId |-> "A", location |-> p]

\* a session whose verification result has conflicts at p, p + d, q, q + d
ProjectionInit ==
    /\ startup = "loaded"
    /\ scenarios = EmptyMap
    /\ selectedScenario = "conflict"
    /\ primaryMission = Mission("P", MaxEnd)
    /\ otherMissions = <<Mission("A", MaxEnd)>>
    /\ \E p \in Points, q \in Points, d \in Offsets :
          verificationResult =
            [status |-> "CONFLICT",
             conflicts |-> <<ConflictAt(p), ConflictAt(Plus(p, d)),
                             ConflictAt(q), ConflictAt(Plus(q, d))>>]
    /\ isLoading = FALSE
    /\ currentTime = 0
    /\ isPlaying = FALSE
    /\ trajectories = EmptyMap
    /\ interval = NoInterval
    /\ procs = [p \in Procs |-> IdleProc]
    /\ scene = Null
    /\ lastEvent = "init"
    /\ before = [time |-> 0, playing |-> FALSE, keys |-> {}]
    /\ lastLoad = NoLoad

ProjectionNext == RenderScene

ProjectionSpec == ProjectionInit /\ [][ProjectionNext]_vars

\* ================================================================ claims ==
\* C1: whenever a primary mission is loaded,
\* 0 <= currentTime <= primaryMission.timeWindow.end
C1_ClockBounds ==
    primaryMission # Null =>
        /\ 0 <= currentTime
        /\ currentTime <= primaryMission.timeWindow.end

\* C2: a tick taken while Playing whose incremented time reaches or exceeds
\* the window end leaves time = end and the clock Stopped in that same tick
C2_StopsOnReachingTick ==
    [][ ( /\ lastEvent' = "tick"
          /\ isPlaying
          /\ primaryMission # Null
          /\ currentTime + TimeScale >= primaryMission.timeWindow.end )
        => ( /\ currentTime' = primaryMission.timeWindow.end
             /\ ~isPlaying' ) ]_vars

\* C3: right after a scenario button loaded a scenario the missions are that
\* scenario's, the verification result is absent and the trajectory map is
\* empty
C3_LoadResetsSession ==
    lastEvent = "loadScenario" =>
        /\ primaryMission = scenarios[selectedScenario].primary
        /\ otherMissions = scenarios[selectedScenario].others
        /\ verificationResult = Null
        /\ DOMAIN trajectories = {}

\* C4: right after a scenario button loaded a scenario, from any clock state,
\* currentTime is 0 and the clock is Stopped (not playing, no interval)
C4_LoadResetsClock ==
    lastEvent = "loadScenario" =>
        /\ currentTime = 0
        /\ ~isPlaying
        /\ interval = NoInterval

\* C4 witness: a scenario was loaded while the clock was Playing at a
\* positive time
C4_Witness ==
    /\ lastEvent = "loadScenario"
    /\ before.playing
    /\ before.time > 0

\* C5: right after Reset, from any clock state and time, currentTime is 0
\* and the clock is Stopped
C5_Reset ==
    lastEvent = "Reset" =>
        /\ currentTime = 0
        /\ ~isPlaying
        /\ interval = NoInterval

\* C5 witness: Reset was pressed while Playing at a positive time
C5_Witness ==
    /\ lastEvent = "Reset"
    /\ before.playing
    /\ before.time > 0

\* C6: right after Pause the clock is Stopped and currentTime is what it was
\* when Pause was pressed
C6_Pause ==
    lastEvent = "Pause" =>
        /\ before.playing
        /\ ~isPlaying
        /\ currentTime = before.time

\* C6 witness: Pause was pressed in mid-run, at a positive time
C6_Witness ==
    /\ lastEvent = "Pause"
    /\ before.playing
    /\ currentTime > 0

\* C7: while the clock is not Playing (after Pause, Reset, a scenario load)
\* no interval tick changes currentTime
C7_NoTickWhenStopped ==
    [][ (lastEvent' = "tick" /\ ~isPlaying) => currentTime' = currentTime ]_vars

\* C7 witness: the clock was stopped by Pause, Reset or a scenario load while
\* it was Playing short of the window end, and its interval is gone
C7_Witness ==
    /\ lastEvent \in {"Pause", "Reset", "loadScenario"}
    /\ before.playing
    /\ primaryMission # Null
    /\ before.time < primaryMission.timeWindow.end
    /\ ~isPlaying
    /\ interval = NoInterval

\* C8: neither issuing a verify request nor its failure changes the stored
\* verification result or the trajectory map
C8_VerifyFailureKeepsResult ==
    [][ lastEvent' \in {"verifyMission", "verifyFailed"}
        => ( /\ verificationResult' = verificationResult
             /\ trajectories' = trajectories ) ]_vars

\* C8 witness: a verify request failed while an earlier result and its
\* trajectories were displayed
C8_Witness ==
    /\ lastEvent = "verifyFailed"
    /\ verificationResult # Null
    /\ DOMAIN trajectories # {}

\* C9: after a trajectory load every mission was requested, a mission whose
\* request failed or came back without a trajectory has no entry in the map,
\* and every mission whose request succeeded has one
C9_FailureIsolated ==
    lastLoad # NoLoad =>
        /\ Len(lastLoad.outcomes) = Len(lastLoad.missions)
        /\ \A i \in 1..Len(lastLoad.missions) :
            (lastLoad.missions[i].id \in DOMAIN trajectories)
                <=> (lastLoad.outcomes[i] = "ok")

\* C10: after a trajectory load the map has entries only for the missions
\* requested in that load
C10_MapReplaced ==
    lastLoad # NoLoad => DOMAIN trajectories \subseteq Ids(lastLoad.missions)

\* C10 witness: the load replaced a map that held an entry of a mission it
\* did not request
C10_Witness ==
    /\ lastEvent = "trajectoriesLoaded"
    /\ before.keys \ Ids(lastLoad.missions) # {}
    /\ DOMAIN trajectories # {}

\* the first sample, in sequence order, among those closest in time
NearestFirst(trajectory, time) ==
    CHOOSE i \in 1..Len(trajectory) :
        /\ \A j \in 1..Len(trajectory) :
            Abs(trajectory[j].time - time) >= Abs(trajectory[i].time - time)
        /\ \A j \in 1..(i - 1) :
            Abs(trajectory[j].time - time) > Abs(trajectory[i].time - time)

\* C11: for a non-empty trajectory, sorted or not, the marker is drawn at the
\* position of the sample closest in time to the playhead, the first such
\* sample of the sequence when several are equally close
C11_NearestSample ==
    (lastEvent = "render" /\ Len(trajectories["P"]) > 0) =>
        LET t == trajectories["P"]
            p == t[NearestFirst(t, currentTime)].position
        IN  /\ getPositionAtTime(t, currentTime) = p
            /\ scene.drones[1] = project(p.x, p.y, p.z)

\* C11 witness: an unsorted trajectory with two samples of different times
\* equally close to the playhead, and no sample closer
C11_Witness ==
    /\ lastEvent = "render"
    /\ scene.drones[1] # Null
    /\ LET t == trajectories["P"]
       IN  \E i, j \in 1..Len(t) :
            /\ i < j
            /\ t[i].time > t[j].time
            /\ Abs(t[i].time - currentTime) = Abs(t[j].time - currentTime)
            /\ \A k \in 1..Len(t) :
                Abs(t[k].time - currentTime) >= Abs(t[i].time - currentTime)

\* whether the trajectory map holds a non-empty trajectory under an id
HasSamples(id) ==
    /\ id \in DOMAIN trajectories
    /\ trajectories[id] # Undefined
    /\ Len(trajectories[id]) > 0

\* C12: the sampler answers absent for an empty or absent trajectory, and the
\* composer draws the drone marker of a loaded mission exactly when the
\* trajectory map holds a non-empty trajectory under the mission's id
C12_MarkerIffSamples ==
    /\ getPositionAtTime(<<>>, currentTime) = Null
    /\ getPositionAtTime(Undefined, currentTime) = Null
    /\ primaryMission = Null => scene = Null
    /\ primaryMission # Null =>
        LET missions == <<primaryMission>> \o otherMissions
        IN  /\ Len(scene.drones) = Len(missions)
            /\ \A i \in 1..Len(missions) :
                (scene.drones[i] # Null) <=> HasSamples(missions[i].id)

\* C12 witness: the primary's marker is drawn while the marker of another
\* loaded mission is omitted because its trajectory is empty
C12_Witness ==
    /\ primaryMission # Null
    /\ Len(otherMissions) > 0
    /\ scene.drones[1] # Null
    /\ scene.drones[2] = Null
    /\ otherMissions[1].id \in DOMAIN trajectories
    /\ trajectories[otherMissions[1].id] = <<>>

\* the conflict-zone markers on screen
ConflictMarkers == IF scene = Null THEN <<>> ELSE scene.conflicts

\* C13: the conflict-zone markers are as many as the conflicts of the current
\* verification result (none when it is absent), and a tick, Play, Pause or
\* Reset leaves them as they are
C13_ConflictMarkers ==
    /\ [](Len(ConflictMarkers) =
            IF verificationResult = Null THEN 0
            ELSE Len(verificationResult.conflicts))
    /\ [][ lastEvent' \in {"tick", "Play", "Pause", "Reset"}
           => ConflictMarkers' = ConflictMarkers ]_vars

\* C13 witness: after a tick a conflict is marked although the playhead is not
\* at the conflict's time
C13_Witness ==
    /\ lastEvent = "tick"
    /\ verificationResult # Null
    /\ Len(ConflictMarkers) > 0
    /\ verificationResult.conflicts[1].time # currentTime

\* difference of two screen points, coefficient by coefficient
ScreenDiff(a, b) ==
    [x |-> [k |-> a.x.k - b.x.k, cos |-> a.x.cos - b.x.cos,
            sin |-> a.x.sin - b.x.sin],
     y |-> [k |-> a.y.k - b.y.k, cos |-> a.y.cos - b.y.cos,
            sin |-> a.y.sin - b.y.sin]]

\* C14: with markers at p, p + d, q, q + d,
\* project(p + d) - project(p) = project(q + d) - project(q), and equal
\* points are drawn at equal screen points
C14_ProjectionAffine ==
    (lastEvent = "render" /\ Len(ConflictMarkers) = 4) =>
        LET m == ConflictMarkers
            c == verificationResult.conflicts
        IN  /\ ScreenDiff(m[2], m[1]) = ScreenDiff(m[4], m[3])
            /\ \A i, j \in 1..4 :
                c[i].location = c[j].location => m[i] = m[j]

\* C14 witness: p and q differ, the offset moves the point on screen
C14_Witness ==
    /\ lastEvent = "render"
    /\ Len(ConflictMarkers) = 4
    /\ ConflictMarkers[1] # ConflictMarkers[3]
    /\ ConflictMarkers[2] # ConflictMarkers[1]
    /\ verificationResult.conflicts[1].location.z
         # verificationResult.conflicts[3].location.z

\* C15: a scenario load leaves the verification in flight as it is; its
\* responses are applied later, whatever scenario is loaded by then
C15_ReloadKeepsRequests ==
    [][ lastEvent' = "loadScenario" => procs' = procs ]_vars

\* C15 witness: the loaded scenario's missions are not those of the last
\* trajectory load, yet the trajectory map is that load's and the stored
\* result reports a conflict with a drone of that load's request
C15_Witness ==
    /\ lastEvent = "trajectoriesLoaded"
    /\ primaryMission # Null
    /\ Ids(lastLoad.missions) \cap Ids(<<primaryMission>> \o otherMissions) = {}
    /\ DOMAIN trajectories = Ids(lastLoad.missions)
    /\ verificationResult # Null
    /\ Len(verificationResult.conflicts) > 0
    /\ verificationResult.conflicts[1].otherDroneId \in Ids(lastLoad.missions)
    /\ verificationResult.conflicts[1].otherDroneId \notin Ids(otherMissions)

\* the verifyMission invocations with a request in flight
InFlight == { p \in Procs : procs[p].pc # "idle" }

\* C16 as claimed: two requests that write the verification result or the
\* trajectory map come to be in flight together
C16_TwoInFlight == <>(Cardinality(InFlight) >= 2)

\* C16 as amended: at most one request that writes the verification result
\* or the trajectory map is in flight at any time, and a verification can
\* only be started while none is
C16_OneInFlight ==
    /\ Cardinality(InFlight) <= 1
    /\ lastEvent = "verifyMission" => Cardinality(InFlight) = 1

\* C16 witness: a request is still in flight after another scenario was
\* loaded, and Verify is disabled
C16_Witness ==
    /\ isLoading
    /\ \E p \in InFlight : procs[p].primary # primaryMission

\* C17: Play, Pause, Reset and ticks leave the missions, the trajectory map
\* and the verification result unchanged; the trajectory map and the result
\* are changed only by fetch-completion handlers and scenario loads
C17_Writers ==
    [][ /\ lastEvent' \in {"Play", "Pause", "Reset", "tick"}
           => /\ primaryMission' = primaryMission
              /\ otherMissions' = otherMissions
              /\ trajectories' = trajectories
              /\ verificationResult' = verificationResult
        /\ (trajectories' # trajectories
              \/ verificationResult' # verificationResult)
           => lastEvent' \in {"verifyResponse", "trajectoriesLoaded",
                              "loadScenario", "scenariosFetched"} ]_vars

\* C17 witness: Reset was pressed in mid-run while a result and trajectories
\* were stored
C17_Witness ==
    /\ lastEvent = "Reset"
    /\ before.time > 0
    /\ verificationResult # Null
    /\ \E id \in DOMAIN trajectories : HasSamples(id)

\* C18: a Playing clock eventually becomes Stopped, and unless a Pause, a
\* Reset or a scenario load stopped it, it is stopped by a tick with
\* currentTime at the primary mission's window end
C18_PlaybackTerminates ==
    (isPlaying /\ primaryMission # Null)
        ~> ( /\ ~isPlaying
             /\ \/ lastEvent \in {"Pause", "Reset", "loadScenario"}
                \/ /\ lastEvent = "tick"
                   /\ currentTime = primaryMission.timeWindow.end )

\* C18 witness: the clock ran from Play to the window end, several ticks
\* away, and a tick stopped it there
C18_Witness ==
    /\ lastEvent = "tick"
    /\ before.playing
    /\ ~isPlaying
    /\ primaryMission # Null
    /\ currentTime = primaryMission.timeWindow.end
    /\ currentTime > TimeScale

\* C19: whenever the clock is Playing the trajectory map is not empty, so the
\* Pause and Reset controls are shown
C19_PlayingHasControls == isPlaying => ControlsShown

\* C20: isLoading is true exactly while a verification has a request in
\* flight, a verification only starts while it is false, and it always
\* becomes false again
C20_LoadingFlag ==
    /\ [](isLoading <=> InFlight # {})
    /\ [][ lastEvent' = "verifyMission" => ~isLoading ]_vars
    /\ isLoading ~> ~isLoading

\* C20 witness: a verification whose verify request failed has put isLoading
\* back to false
C20_Witness ==
    /\ lastEvent = "verifyFailed"
    /\ ~isLoading
    /\ InFlight = {}

\* a step in which a request of the running verification was rejected: the
\* verify request, or the sampling request the loop was waiting for
FailureStep ==
    \/ lastEvent' = "verifyFailed"
    \/ /\ lastEvent' = "trajectoryResponse"
       /\ \E p \in InFlight :
            /\ Len(procs'[p].outcomes) = Len(procs[p].outcomes) + 1
            /\ procs'[p].outcomes[Len(procs'[p].outcomes)] = "fail"
    \/ /\ lastEvent' = "trajectoriesLoaded"
       /\ lastLoad'.outcomes[Len(lastLoad'.outcomes)] = "fail"

\* one Verify press issues one verify request; its answer starts the sampling
\* loop at the first mission, its rejection starts nothing; every answer or
\* rejection of a sampling request moves the loop to the next mission, and
\* the loop ends after one request per mission
OneRequestEach ==
    /\ lastEvent' = "verifyMission" =>
          \E p \in Procs :
            /\ procs[p].pc = "idle"
            /\ procs'[p].pc = "verify"
            /\ \A q \in Procs \ {p} : procs'[q] = procs[q]
    /\ lastEvent' = "verifyFailed" =>
          \E p \in Procs :
            /\ procs[p].pc = "verify"
            /\ procs' = [procs EXCEPT ![p] = IdleProc]
    /\ lastEvent' = "verifyResponse" =>
          \E p \in Procs :
            /\ procs[p].pc = "verify"
            /\ procs'[p].pc = "trajectory"
            /\ procs'[p].idx = 1
            /\ procs'[p].outcomes = <<>>
            /\ \A q \in Procs \ {p} : procs'[q] = procs[q]
    /\ lastEvent' = "trajectoryResponse" =>
          \E p \in Procs :
            /\ procs[p].pc = "trajectory"
            /\ procs'[p].pc = "trajectory"
            /\ procs'[p].idx = procs[p].idx + 1
            /\ procs'[p].idx <= Len(allMissions(procs[p]))
            /\ Len(procs'[p].outcomes) = procs[p].idx
            /\ \A q \in Procs \ {p} : procs'[q] = procs[q]
    /\ lastEvent' = "trajectoriesLoaded" =>
          \E p \in Procs :
            /\ procs[p].pc = "trajectory"
            /\ procs' = [procs EXCEPT ![p] = IdleProc]
            /\ lastLoad'.missions = allMissions(procs[p])
            /\ Len(lastLoad'.outcomes) = 1 + Len(procs[p].others)
    /\ lastEvent' \notin {"verifyMission", "verifyFailed", "verifyResponse",
                          "trajectoryResponse", "trajectoriesLoaded"}
          => procs' = procs

\* a rejected request takes away none of the controls that were offered when
\* it was rejected: the scenario buttons, Verify, Play, Pause and Reset
KeepsAccepting ==
    FailureStep =>
        /\ DOMAIN scenarios' = DOMAIN scenarios
        /\ ~isLoading => ~isLoading'
        /\ lastEvent' \in {"verifyFailed", "trajectoriesLoaded"} => ~isLoading'
        /\ (ControlsShown /\ ~isPlaying) => (ControlsShown' /\ ~isPlaying')
        /\ (ControlsShown /\ isPlaying) => (ControlsShown' /\ isPlaying')
        /\ ControlsShown => ControlsShown'

\* C21: a verification issues one verify request and, if that is answered,
\* one sampling request per mission, none of them a second time
C21_RequestsOnce == [][OneRequestEach]_vars

\* C21: no request is issued twice, and after a rejected request the session
\* still accepts loadScenario, Verify, Play, Pause and Reset
C21_NoRetries == [][OneRequestEach /\ KeepsAccepting]_vars

====
